---- MODULE Spec2Model ----
(***************************************************************************)
(* Model of memory_agent: the MemoryManager namespace / consolidation      *)
(* logic (memory_manager.py) and the MemoryAgent invocation engine         *)
(* (memory_agent.py): ainvoke, the astream async generator, the envelope   *)
(* builder, the checkpoint handle scope and the checkpoint refresh.        *)
(***************************************************************************)
EXTENDS Integers, Sequences, FiniteSets, TLC

(***************************************************************************)
(* Bounds of the model.                                                    *)
(***************************************************************************)
\* number of ainvoke / astream calls started in one behaviour
MaxCalls == 2
\* number of events the agent graph produces in one astream call
MaxEvents == 3
\* the same, in the specification of the background mode
MaxTaskEvents == 1

(***************************************************************************)
(* Values.                                                                 *)
(***************************************************************************)
Instances == {1, 2}
Slots == {1, 2}
Threads == {"t1", "t2"}
Users == {"u1", "u2"}
Sessions == {"s1", "s2"}

\* Python None for dict-valued arguments (result, error, agent, event_item)
None == [none |-> TRUE]
\* Python None for the optional thread_id argument
NoThread == "None"

\* a str value (kept as a record: content is a str in some places and a dict
\* in others, see astream)
Str(s) == [str |-> s]

\* MemoryManager.filter_minutes
filter_minutes == 60

\* MemoryStoreType, and a value outside of it
allowed_store_types == {"episodic", "user", "semantic"}
StoreTypeArgs == allowed_store_types \cup {"graph"}
\* the store_type argument of update_memory left out by the caller
Omitted == "omitted"
\* update_memory(..., delay: int = 10)
delay == 10
\* the texts a caller hands to update_memory
Texts == {"a", "b"}

\* the messages a model result / an event item can carry: the contents of
\* its messages in order; <<>> also stands for a missing "messages" key
Outputs == {<<>>, <<"">>, <<"a">>, <<"a", "">>, <<"", "a">>}

\* the events of agent.astream(stream_mode="updates"): one node's update
Events ==
    [kind : {"agent", "tools"}, messages : Outputs]
        \cup {[kind |-> "other", messages |-> <<>>]}

\* the events with no message or with one message that has a content
PlainEvents == {e \in Events : e.messages \in {<<>>, <<"a">>}}

\* event_messages[-1].content
Last(msgs) == msgs[Len(msgs)]

VARIABLES
    thread_id,              \* self.thread_id of each instance
    user_id,                \* self.user_id
    session_id,             \* self.session_id
    namespace,              \* self.namespace
    refresh_checkpointer,   \* self.refresh_checkpointer
    action_type,            \* self.action_type
    store_type,             \* self.store_type
    agent,                  \* self.agent: None or the graph and its checkpointer
    store,                  \* the memory store: items (namespace, text)
    tasks,                  \* delayed consolidation tasks submitted, not yet run
    open,                   \* checkpoint handles that are open
    nhandles,               \* number of handles acquired so far
    ncalls,                 \* number of calls started so far
    call,                   \* the calls in progress: one record per slot
    collections,            \* the collections of the Qdrant backend
    points,                 \* the documents stored in them
    nuuid,                  \* number of uuid4() identifiers drawn so far
    nops,                   \* number of MemoryPersistence calls made so far
    operation,              \* the last MemoryPersistence call
    prompt,                 \* the last list of messages _prompt returned
    tools                   \* MemoryAgent.tools, the list of the class

cfgvars == <<user_id, session_id, namespace, refresh_checkpointer, action_type,
             store_type>>
pvars == <<collections, points, nuuid, nops, operation>>
vars == <<thread_id, user_id, session_id, namespace, refresh_checkpointer,
          action_type, store_type, agent, store, tasks, open, nhandles, ncalls,
          call, collections, points, nuuid, nops, operation, prompt, tools>>

(***************************************************************************)
(* MemoryManager.__init__: the namespace is computed once from the         *)
(* identifiers the instance is constructed with.                           *)
(***************************************************************************)
MakeNamespace(t, u, s) == <<"memories", t, u, s>>

\* mutant: the placeholder does not ask for user input
Placeholder_no_input ==
    [is_task_complete |-> FALSE,
     require_user_input |-> FALSE,
     content |-> Str("We are unable to process your request at the moment. Please try again.")]

\* the placeholder result of ainvoke / astream
Placeholder ==
    [is_task_complete |-> FALSE,
     require_user_input |-> TRUE,
     content |-> Str("We are unable to process your request at the moment. Please try again.")]

\* a slot with no call
\* pc, kind, inst, arg: where the call is, ainvoke or astream, the instance
\* and the thread_id argument; config, result, index, event_item,
\* event_response: the locals of the call; handle: the checkpoint handle of
\* its async with while it is inside it (0: none), acquired: the handle it
\* acquired; resume: the yield the generator is suspended at;
\* exc, raised: the exception caught and whether it reached the caller;
\* the rest is the record of what the call did: steps (each operation, in
\* the order of its first occurrence), deleted (the checkpoint deletions
\* issued), response_agent / event (the last model result / event), the
\* last envelope and the number of envelopes, of error envelopes, of events,
\* of agent or tools events, the last update_memory call and their number,
\* and the memories the prompt retrieved; id: the number of the call;
\* store_type: the store_type argument of a direct update_memory call;
\* nsubmitted, nextracted: the delayed tasks the call submitted and the
\* extractions it awaited; ntexts: the events received whose last message
\* has a text
IdleCall ==
    [pc |-> "idle", kind |-> "none", inst |-> 1, arg |-> NoThread,
     id |-> 0, store_type |-> Omitted, nsubmitted |-> 0, nextracted |-> 0,
     config |-> NoThread, result |-> None, handle |-> 0, acquired |-> 0,
     index |-> 0, event_item |-> None, event_response |-> "", resume |-> "none",
     exc |-> "none", raised |-> FALSE, steps |-> <<>>, deleted |-> <<>>,
     response_agent |-> None, event |-> None, envelope |-> None,
     nout |-> 0, nerr |-> 0, nevents |-> 0, nrecognized |-> 0,
     update |-> None, nupdates |-> 0, retrieved |-> {}, ntexts |-> 0]

\* no MemoryPersistence call
NoOp == [kind |-> "none"]

\* no MemoryPersistence in use
NoPersistence ==
    /\ collections = {}
    /\ points = {}
    /\ nuuid = 0
    /\ nops = 0
    /\ operation = NoOp

\* no call made yet: no agent graph, an empty store, no handle
Fresh ==
    /\ agent = [i \in Instances |-> None]
    /\ store = {}
    /\ tasks = <<>>
    /\ open = {}
    /\ nhandles = 0
    /\ ncalls = 0
    /\ call = [c \in Slots |-> IdleCall]
    /\ prompt = None
    /\ tools = <<>>

\* MemoryManager.__init__: self.store_type = kwargs.get("store_type",
\* self.store_type): the argument is stored as it is given
__init__store_type(st) == st

\* MemoryManager.__init__ / MemoryAgent.__init__ with the keyword arguments
\* thread_id, user_id, session_id, refresh_checkpointer, action_type,
\* store_type
Constructed ==
    namespace = [i \in Instances |->
                    MakeNamespace(thread_id[i], user_id[i], session_id[i])]

\* one agent, constructed for (t1, u1, s1) in hot-path mode (the default),
\* with or without refresh
Init ==
    /\ thread_id = [i \in Instances |-> "t1"]
    /\ user_id = [i \in Instances |-> "u1"]
    /\ session_id = [i \in Instances |-> "s1"]
    /\ \E b \in BOOLEAN : refresh_checkpointer = [i \in Instances |-> b]
    /\ action_type = [i \in Instances |-> "hotpath"]
    /\ store_type = [i \in Instances |-> __init__store_type("semantic")]
    /\ Constructed
    /\ Fresh
    /\ NoPersistence

\* two agents on one store: the first constructed for (t1, u1, s1), the
\* second for any identifiers, both in hot-path or both in background mode
InitShared ==
    /\ thread_id \in [Instances -> Threads]
    /\ thread_id[1] = "t1"
    /\ user_id \in [Instances -> Users]
    /\ user_id[1] = "u1"
    /\ session_id \in [Instances -> Sessions]
    /\ session_id[1] = "s1"
    /\ refresh_checkpointer = [i \in Instances |-> TRUE]
    /\ \E a \in {"hotpath", "background"} :
          action_type = [i \in Instances |-> a]
    /\ store_type = [i \in Instances |-> __init__store_type("semantic")]
    /\ Constructed
    /\ Fresh
    /\ NoPersistence

\* one agent, constructed for (t1, u1, s1) with refresh, in hot-path or in
\* background mode, with any string as its store_type argument
InitMemory ==
    /\ thread_id = [i \in Instances |-> "t1"]
    /\ user_id = [i \in Instances |-> "u1"]
    /\ session_id = [i \in Instances |-> "s1"]
    /\ refresh_checkpointer = [i \in Instances |-> TRUE]
    /\ \E a \in {"hotpath", "background"} :
          action_type = [i \in Instances |-> a]
    /\ \E st \in StoreTypeArgs :
          store_type = [i \in Instances |-> __init__store_type(st)]
    /\ Constructed
    /\ Fresh
    /\ NoPersistence

\* one agent, constructed for (t1, u1, s1) with refresh, in background mode
InitBackground ==
    /\ thread_id = [i \in Instances |-> "t1"]
    /\ user_id = [i \in Instances |-> "u1"]
    /\ session_id = [i \in Instances |-> "s1"]
    /\ refresh_checkpointer = [i \in Instances |-> TRUE]
    /\ action_type = [i \in Instances |-> "background"]
    /\ store_type = [i \in Instances |-> __init__store_type("semantic")]
    /\ Constructed
    /\ Fresh
    /\ NoPersistence

\* mutant: the config carries the thread_id the instance was constructed with
_params_constructed(i, tid) == namespace[i][2]

(***************************************************************************)
(* MemoryAgent._params: the config carries the thread_id it is given.      *)
(***************************************************************************)
_params(i, tid) == tid

\* mutant: the "result" key is always written, also when result is None
_response_always_result(tid, result, error) ==
    [k \in {"jsonrpc", "id", "result"}
            \cup (IF error # None THEN {"error"} ELSE {}) |->
        CASE k = "jsonrpc" -> Str("2.0")
          [] k = "id" -> Str(tid)
          [] k = "result" -> result
          [] k = "error" -> error]

(***************************************************************************)
(* MemoryAgent._response: the envelope holds "result" when result is not   *)
(* None and "error" when error is not None; both None raises ValueError.   *)
(***************************************************************************)
_response(tid, result, error) ==
    IF result = None /\ error = None
    THEN [raised |-> "Both result and error are None"]
    ELSE [k \in {"jsonrpc", "id"}
                \cup (IF result # None THEN {"result"} ELSE {})
                \cup (IF error # None THEN {"error"} ELSE {}) |->
            CASE k = "jsonrpc" -> Str("2.0")
              [] k = "id" -> Str(tid)
              [] k = "result" -> result
              [] k = "error" -> error]

\* an operation of a call, recorded in the order of first occurrence
Step(r, op) ==
    IF \E k \in 1..Len(r.steps) : r.steps[k] = op
    THEN r
    ELSE [r EXCEPT !.steps = Append(@, op)]

\* an envelope handed to the caller
Emit(r, env) ==
    [r EXCEPT !.envelope = env, !.nout = @ + 1,
              !.nerr = IF "error" \in DOMAIN env THEN @ + 1 ELSE @]

(***************************************************************************)
(* MemoryCheckpointer.from_conn_info used as "async with": __aenter__      *)
(* opens a handle, __aexit__ releases it on every way out of the block.    *)
(***************************************************************************)
aenter(handles, h) == handles \cup {h}

\* mutant: the handle is released on the normal way out only
aexit_on_return(handles, h, how) ==
    IF h # 0 /\ how = "return" THEN handles \ {h} ELSE handles

\* mutant: the handle is not released when the generator is closed at a yield
aexit_not_on_close(handles, h, how) ==
    IF h # 0 /\ how # "close" THEN handles \ {h} ELSE handles

\* how the block is left: "return", "raise" (an exception propagates) or
\* "close" (GeneratorExit at a yield of the suspended generator)
aexit(handles, h, how) == IF h # 0 THEN handles \ {h} ELSE handles

(***************************************************************************)
(* MemoryManager._get_similar: store.search(self.namespace, query=...):    *)
(* the items whose namespace starts with the instance's namespace.         *)
(***************************************************************************)
IsPrefix(p, ns) ==
    /\ Len(p) <= Len(ns)
    /\ \A k \in 1..Len(p) : p[k] = ns[k]

_get_similar(i) == {x \in store : IsPrefix(namespace[i], x.ns)}

\* mutant: the exception is logged and raised again
ainvoke_except_reraise(r, msg) ==
    [r EXCEPT !.pc = "done", !.handle = 0, !.exc = msg, !.raised = TRUE]

(***************************************************************************)
(* ainvoke, "except Exception as e": the handle is already released by the *)
(* async with; the error envelope is returned, nothing is raised.          *)
(***************************************************************************)
ainvoke_except(r, msg) ==
    LET r1 == IF r.handle # 0 THEN Step(r, "release") ELSE r
        r2 == Step(r1, "respond")
    IN [Emit(r2, _response(thread_id[r.inst], None, [message |-> msg]))
           EXCEPT !.pc = "done", !.handle = 0, !.exc = msg]

(***************************************************************************)
(* astream, "except Exception as e": the error envelope is yielded with    *)
(* the current result dict, and e is raised when the generator is resumed. *)
(***************************************************************************)
astream_except(r, msg) ==
    LET r1 == IF r.handle # 0 THEN Step(r, "release") ELSE r
        r2 == Step(r1, "respond")
    IN [Emit(r2, _response(thread_id[r.inst], r.result,
                           [code |-> 500, message |-> msg]))
           EXCEPT !.pc = "yielded", !.resume = "reraise", !.handle = 0,
                  !.exc = msg]

\* an exception raised inside the try block of call c
Raise(c, msg) ==
    LET r == call[c]
    IN /\ call' = [call EXCEPT ![c] = IF r.kind = "ainvoke"
                                        THEN ainvoke_except(r, msg)
                                        ELSE astream_except(r, msg)]
       /\ open' = aexit(open, r.handle, "raise")

(***************************************************************************)
(* The start of ainvoke / astream up to the first await: the thread_id     *)
(* argument overrides self.thread_id, _params builds the config, result is *)
(* the placeholder.  Calls of one instance do not overlap in this          *)
(* specification: a call starts when no other call is running.             *)
(***************************************************************************)
Running(c) == call[c].pc \notin {"idle", "abandoned"}

\* mutant: the override rebuilds the namespace for the new thread
override_rebuilds_namespace(ns, i, tid) ==
    IF tid # NoThread
    THEN [ns EXCEPT ![i] = MakeNamespace(tid, user_id[i], session_id[i])]
    ELSE ns

\* `self.thread_id = thread_id` assigns the attribute only: self.namespace
\* keeps the tuple built in __init__
override(ns, i, tid) == ns

Begin(c, i, k, tid) ==
    /\ call[c].pc = "idle"
    /\ ncalls < MaxCalls
    /\ ncalls' = ncalls + 1
    /\ thread_id' = IF tid # NoThread THEN [thread_id EXCEPT ![i] = tid]
                                       ELSE thread_id
    /\ call' = [call EXCEPT ![c] =
                  [IdleCall EXCEPT !.pc = "acquire", !.kind = k, !.inst = i,
                                   !.arg = tid, !.id = ncalls',
                                   !.config = _params(i, thread_id'[i]),
                                   !.result = Placeholder]]
    /\ namespace' = override(namespace, i, tid)
    /\ UNCHANGED <<tools, prompt, pvars, user_id, session_id, refresh_checkpointer,
                   action_type, store_type, agent, store, tasks, open,
                   nhandles>>

Start(c, i, k, tid) ==
    /\ \A d \in Slots \ {c} : ~Running(d)
    /\ \A d \in Slots : d < c => call[d].pc # "idle"
    /\ Begin(c, i, k, tid)

\* the same, while the caller still holds what the call before returned
StartAgain(c, i, k, tid) ==
    /\ \A d \in Slots \ {c} : call[d].pc = "done"
    /\ Begin(c, i, k, tid)

(***************************************************************************)
(* async with MemoryCheckpointer.from_conn_info(...) as checkpointer       *)
(***************************************************************************)
Acquire(c) ==
    /\ call[c].pc = "acquire"
    /\ nhandles' = nhandles + 1
    /\ open' = aenter(open, nhandles')
    /\ call' = [call EXCEPT ![c] =
                  [Step(call[c], "acquire") EXCEPT !.pc = "refresh",
                                                   !.handle = nhandles',
                                                   !.acquired = nhandles']]
    /\ UNCHANGED <<tools, prompt, pvars, thread_id, cfgvars, agent, store, tasks, ncalls>>

AcquireFails(c) ==
    /\ call[c].pc = "acquire"
    /\ Raise(c, "acquire")
    /\ UNCHANGED <<tools, prompt, pvars, thread_id, cfgvars, agent, store, tasks, nhandles, ncalls>>

\* mutant: the deletion is issued whatever refresh_checkpointer says
_refresh_always(r) ==
    [r EXCEPT !.steps = Append(@, "delete"),
              !.deleted = Append(@, [thread_id |-> thread_id[r.inst],
                                     filter_minutes |-> filter_minutes,
                                     handle |-> r.handle])]

(***************************************************************************)
(* MemoryAgent._refresh: when refresh_checkpointer is set, the checkpoints *)
(* of self.thread_id older than filter_minutes are deleted.                *)
(***************************************************************************)
_refresh(r) ==
    IF refresh_checkpointer[r.inst]
    THEN [Step(r, "delete") EXCEPT !.deleted =
              Append(@, [thread_id |-> thread_id[r.inst],
                         filter_minutes |-> filter_minutes,
                         handle |-> r.handle])]
    ELSE r

Refresh(c) ==
    /\ call[c].pc = "refresh"
    /\ call' = [call EXCEPT ![c] = [_refresh(call[c]) EXCEPT !.pc = "build"]]
    /\ UNCHANGED <<tools, prompt, pvars, thread_id, cfgvars, agent, store, tasks, open, nhandles,
                   ncalls>>

RefreshFails(c) ==
    /\ call[c].pc = "refresh"
    /\ refresh_checkpointer[call[c].inst]
    /\ Raise(c, "refresh")
    /\ UNCHANGED <<tools, prompt, pvars, thread_id, cfgvars, agent, store, tasks, nhandles, ncalls>>

(***************************************************************************)
(* The agent graph: created when self.agent is None, else the checkpointer *)
(* of the existing graph is set to this call's handle.                     *)
(***************************************************************************)
\* MemoryAgent._get_tools: self.tools.extend([manage, search]) appends the
\* two memory tools of the namespace of the instance to the list self.tools
\* names, which is the list of the class (no instance assigns self.tools),
\* and returns that list
_get_tools(list, i) ==
    list \o << [tool |-> "manage_memory", namespace |-> namespace[i]],
               [tool |-> "search_memory", namespace |-> namespace[i]] >>

\* graph: which graph it is (named by the handle it was compiled with);
\* tools: the list create_react_agent is given
create_agent(i, checkpointer) ==
    [graph |-> checkpointer, checkpointer |-> checkpointer,
     tools |-> _get_tools(tools, i)]

\* mutant: a graph is compiled by every call
get_agent_always_created(a, i, checkpointer) == create_agent(i, checkpointer)

\* if self.agent is None: self.agent = await self.create_agent(checkpointer)
\* else: self.agent.checkpointer = checkpointer
get_agent(a, i, checkpointer) ==
    IF a = None
    THEN create_agent(i, checkpointer)
    ELSE [a EXCEPT !.checkpointer = checkpointer]

Build(c) ==
    LET r == call[c]
    IN /\ r.pc = "build"
       /\ agent' = [agent EXCEPT ![r.inst] = get_agent(@, r.inst, r.handle)]
       /\ tools' = IF agent[r.inst] = None THEN agent'[r.inst].tools ELSE tools
       /\ call' = [call EXCEPT ![c] =
                     [Step(r, IF agent[r.inst] = None THEN "create" ELSE "reuse")
                         EXCEPT !.pc = IF r.kind = "ainvoke" THEN "model"
                                                              ELSE "stream",
                                !.index = 1]]
       /\ UNCHANGED <<prompt, pvars, thread_id, cfgvars, store, tasks, open, nhandles, ncalls>>

BuildFails(c) ==
    /\ call[c].pc = "build"
    /\ agent[call[c].inst] = None
    /\ Raise(c, "build")
    /\ UNCHANGED <<tools, prompt, pvars, thread_id, cfgvars, agent, store, tasks, nhandles, ncalls>>

(***************************************************************************)
(* MemoryManager.update_memory(messages, config, store_type="semantic",    *)
(* delay=10).  ainvoke / astream call update_memory(event_response,        *)
(* config=config): store_type is left out.  The store_type argument is     *)
(* validated, it selects the instructions and the schemas, the extraction  *)
(* manager is created for self.namespace; in background mode one delayed   *)
(* task is submitted, otherwise the extraction is awaited and its memory   *)
(* is put in the store.                                                    *)
(***************************************************************************)
MemoryItem(i, text) == [ns |-> namespace[i], text |-> text]

\* the instructions and the schemas of a store_type
Pair(st) ==
    CASE st = "episodic" ->
            [instructions |-> "Extract examples of successful explanations",
             schemas |-> <<"Episode">>]
      [] st = "user" ->
            [instructions |-> "Extract user profile information",
             schemas |-> <<"UserProfile">>]
      [] OTHER ->
            [instructions |-> "Extract user preferences and any other useful information",
             schemas |-> <<"Triple">>]

\* MemoryManager.create_memory: create_memory_store_manager(model, schemas,
\* instructions, namespace, store)
create_memory(instructions, schemas, ns) ==
    [instructions |-> instructions, schemas |-> schemas, namespace |-> ns]

\* the store_type parameter of the update_memory call of record r
StoreTypeArg(r) == IF r.store_type = Omitted THEN "semantic" ELSE r.store_type

\* mutant: the manager is created before the store_type is looked at
update_memory_unvalidated(r) ==
    [Step(r, "update_memory") EXCEPT
        !.update = [messages |-> r.event_response, config |-> r.config,
                    store_type |-> StoreTypeArg(r),
                    mem |-> create_memory(Pair(StoreTypeArg(r)).instructions,
                                          Pair(StoreTypeArg(r)).schemas,
                                          namespace[r.inst])],
        !.nupdates = @ + 1]

\* update_memory up to the extraction: mem is None when the store_type is
\* not allowed (ValueError is raised before create_memory)
update_memory(r) ==
    [Step(r, "update_memory") EXCEPT
        !.update = [messages |-> r.event_response, config |-> r.config,
                    store_type |-> StoreTypeArg(r),
                    mem |-> IF StoreTypeArg(r) \notin allowed_store_types
                            THEN None
                            ELSE create_memory(Pair(StoreTypeArg(r)).instructions,
                                               Pair(StoreTypeArg(r)).schemas,
                                               namespace[r.inst])],
        !.nupdates = @ + 1]

\* mutant: the extraction is left to a later moment
mem_ainvoke_later(items, mem, text) == items

\* await mem.ainvoke({"messages": messages}, config): the memory extracted is
\* in the store, under the namespace of the manager, when the await ends
mem_ainvoke(items, mem, text) == items \cup {[ns |-> mem.namespace, text |-> text]}

\* mutant: the task is submitted twice
submit_twice(queue, mem, text, after_seconds, id) ==
    queue \o << [item |-> [ns |-> mem.namespace, text |-> text],
                 after_seconds |-> after_seconds,
                 elapsed |-> (after_seconds = 0), call |-> id],
               [item |-> [ns |-> mem.namespace, text |-> text],
                 after_seconds |-> after_seconds,
                 elapsed |-> (after_seconds = 0), call |-> id] >>

\* mutant: the task is submitted with no delay
submit_now(queue, mem, text, after_seconds, id) ==
    Append(queue, [item |-> [ns |-> mem.namespace, text |-> text],
                   after_seconds |-> 0, elapsed |-> TRUE, call |-> id])

\* ReflectionExecutor(mem, store).submit(input, after_seconds=delay, config):
\* one task on a new executor; it holds the manager (and so its namespace)
\* and the input it was submitted with; elapsed: the delay is over
submit(queue, mem, text, after_seconds, id) ==
    Append(queue, [item |-> [ns |-> mem.namespace, text |-> text],
                   after_seconds |-> after_seconds,
                   elapsed |-> (after_seconds = 0), call |-> id])

\* ainvoke: return self._response(thread_id=self.thread_id, result=result,
\* error=None) inside the async with: the envelope is built, the handle is
\* released, the envelope is returned
ainvoke_return(r) ==
    LET r1 == Step(Step(r, "respond"), "release")
    IN [Emit(r1, _response(thread_id[r.inst], r.result, None))
           EXCEPT !.pc = "done", !.handle = 0]

\* astream: yield self._response(thread_id=self.thread_id, result=result,
\* error=None); the generator is suspended inside the async with
astream_yield(r, resume) ==
    [Emit(Step(r, "respond"), _response(thread_id[r.inst], r.result, None))
        EXCEPT !.pc = "yielded", !.resume = resume]

\* a direct call of update_memory returns to its caller, or raises
update_memory_return(r) == [r EXCEPT !.pc = "done"]
update_memory_raise(r, msg) ==
    [r EXCEPT !.pc = "done", !.exc = msg, !.raised = TRUE]

\* what follows the awaited update_memory
AfterUpdate(c, r) ==
    CASE r.kind = "ainvoke" ->
            /\ call' = [call EXCEPT ![c] = ainvoke_return(r)]
            /\ open' = aexit(open, r.handle, "return")
      [] r.kind = "astream" ->
            /\ call' = [call EXCEPT ![c] = astream_yield(r, "after_output")]
            /\ open' = open
      [] OTHER ->
            /\ call' = [call EXCEPT ![c] = update_memory_return(r)]
            /\ open' = open

\* update_memory raises: inside ainvoke / astream the except clause runs
UpdateRaises(c, r, msg) ==
    /\ call' = [call EXCEPT ![c] =
                  CASE r.kind = "ainvoke" -> ainvoke_except(r, msg)
                    [] r.kind = "astream" -> astream_except(r, msg)
                    [] OTHER -> update_memory_raise(r, msg)]
    /\ open' = aexit(open, r.handle, "raise")

Consolidate(c) ==
    LET r == update_memory(call[c])
    IN /\ call[c].pc = "consolidate"
       /\ r.update.mem # None
       /\ action_type[r.inst] # "background"
       /\ store' = mem_ainvoke(store, r.update.mem, r.event_response)
       /\ AfterUpdate(c, [r EXCEPT !.nextracted = @ + 1])
       /\ UNCHANGED <<tools, prompt, pvars, thread_id, cfgvars, agent, tasks, nhandles, ncalls>>

ConsolidateSubmits(c) ==
    LET r == update_memory(call[c])
    IN /\ call[c].pc = "consolidate"
       /\ r.update.mem # None
       /\ action_type[r.inst] = "background"
       /\ tasks' = submit(tasks, r.update.mem, r.event_response, delay, r.id)
       /\ AfterUpdate(c, [r EXCEPT !.nsubmitted = @ + Len(tasks') - Len(tasks)])
       /\ UNCHANGED <<tools, prompt, pvars, thread_id, cfgvars, agent, store, nhandles, ncalls>>

\* create_memory, the submission or the awaited extraction raises
ConsolidateFails(c) ==
    LET r == update_memory(call[c])
    IN /\ call[c].pc = "consolidate"
       /\ r.update.mem # None
       /\ UpdateRaises(c, r, "consolidate")
       /\ UNCHANGED <<tools, prompt, pvars, thread_id, cfgvars, agent, store, tasks, nhandles, ncalls>>

\* raise ValueError("store_type must be one of ...")
ConsolidateInvalid(c) ==
    LET r == update_memory(call[c])
    IN /\ call[c].pc = "consolidate"
       /\ r.update.mem = None
       /\ UpdateRaises(c, r, "store_type")
       /\ UNCHANGED <<tools, prompt, pvars, thread_id, cfgvars, agent, store, tasks, nhandles, ncalls>>

\* mutant: the failure of the task reaches the call that submitted it
task_failed_surfaces(r) ==
    [Emit(r, _response(thread_id[r.inst], None, [message |-> "task"]))
        EXCEPT !.exc = "task"]

\* a failure of the delayed task is logged by the executor's worker; the
\* call that submitted it dropped the future update_memory returned
task_failed(r) == r

\* the delay of a submitted task is over: the delays being equal, they end
\* in the order of submission
DelayElapses ==
    /\ \E k \in 1..Len(tasks) :
          /\ ~tasks[k].elapsed
          /\ \A j \in 1..(k - 1) : tasks[j].elapsed
          /\ tasks' = [tasks EXCEPT ![k].elapsed = TRUE]
    /\ UNCHANGED <<tools, prompt, pvars, thread_id, cfgvars, agent, store, open, nhandles, ncalls, call>>

\* the delayed task of ReflectionExecutor.submit runs, or fails (logged only)
RunTask(ok) ==
    /\ \E k \in 1..Len(tasks) :
          /\ tasks[k].elapsed
          /\ tasks' = SubSeq(tasks, 1, k - 1) \o SubSeq(tasks, k + 1, Len(tasks))
          /\ store' = IF ok THEN store \cup {tasks[k].item} ELSE store
          /\ call' = [c \in Slots |->
                        IF ~ok /\ call[c].id = tasks[k].call
                        THEN task_failed(call[c])
                        ELSE call[c]]
    /\ UNCHANGED <<tools, prompt, pvars, thread_id, cfgvars, agent, open, nhandles, ncalls>>

\* a caller of the manager calls update_memory(text, config, store_type=st)
\* itself (st may be left out)
CallUpdateMemory(c, i, text, st) ==
    /\ \A d \in Slots \ {c} : ~Running(d)
    /\ \A d \in Slots : d < c => call[d].pc # "idle"
    /\ call[c].pc = "idle"
    /\ ncalls < MaxCalls
    /\ ncalls' = ncalls + 1
    /\ call' = [call EXCEPT ![c] =
                  [IdleCall EXCEPT !.pc = "consolidate",
                                   !.kind = "update_memory", !.inst = i,
                                   !.id = ncalls',
                                   !.config = _params(i, thread_id[i]),
                                   !.event_response = text,
                                   !.store_type = st]]
    /\ UNCHANGED <<tools, prompt, pvars, thread_id, cfgvars, agent, store, tasks, open, nhandles>>

(***************************************************************************)
(* ainvoke: response_agent = await self.agent.ainvoke(...).  The prompt of *)
(* the graph is self._prompt, which searches the store.  With at least one *)
(* message the last one is the content and update_memory is awaited;       *)
(* with none the placeholder is returned.                                  *)
(***************************************************************************)
ainvoke_result(r, msgs) ==
    IF Len(msgs) > 0
    THEN [r EXCEPT !.event_response = Last(msgs),
                   !.result = [@ EXCEPT !.content = Str(Last(msgs))],
                   !.pc = "consolidate"]
    ELSE ainvoke_return(r)

InvokeModel(c, msgs) ==
    LET r == call[c]
        r1 == [Step(r, "model") EXCEPT !.retrieved = _get_similar(r.inst),
                                       !.response_agent = [messages |-> msgs]]
    IN /\ r.pc = "model"
       /\ agent[r.inst] # None
       /\ call' = [call EXCEPT ![c] = ainvoke_result(r1, msgs)]
       /\ open' = IF Len(msgs) > 0 THEN open
                                   ELSE aexit(open, r.handle, "return")
       /\ UNCHANGED <<tools, prompt, pvars, thread_id, cfgvars, agent, store, tasks, nhandles, ncalls>>

\* the model call (or the store search of its prompt) raises
ModelFails(c, msg) ==
    /\ call[c].pc \in {"model", "stream"}
    /\ Raise(c, msg)
    /\ UNCHANGED <<tools, prompt, pvars, thread_id, cfgvars, agent, store, tasks, nhandles, ncalls>>

(***************************************************************************)
(* astream: one event of self.agent.astream(..., stream_mode="updates").   *)
(* An "agent" event replaces result and yields it; a "tools" event puts    *)
(* its status dict into result["content"] and yields result; any other     *)
(* event yields nothing.                                                   *)
(***************************************************************************)
Status(text, index) == [str |-> text, event |-> index]

astream_event(r, e) ==
    LET r1 == [r EXCEPT !.event = e, !.nevents = @ + 1,
                        !.nrecognized = IF e.kind = "other" THEN @ ELSE @ + 1,
                        !.retrieved = _get_similar(r.inst),
                        !.ntexts = IF Len(e.messages) > 0 /\ Last(e.messages) # ""
                                   THEN @ + 1 ELSE @]
    IN CASE e.kind = "agent" ->
              astream_yield(
                [r1 EXCEPT !.event_item = [messages |-> e.messages],
                           !.result =
                              [is_task_complete |-> TRUE,
                               require_user_input |-> FALSE,
                               content |-> Status("Looking up the knowledge base...",
                                                  r.index)]],
                "after_status")
         [] e.kind = "tools" ->
              astream_yield(
                [r1 EXCEPT !.event_item = [messages |-> e.messages],
                           !.result = [@ EXCEPT !.content =
                              [is_task_complete |-> FALSE,
                               require_user_input |-> FALSE,
                               content |-> Status("Processing the knowledge base...",
                                                  r.index)]]],
                "after_status")
         [] OTHER -> [r1 EXCEPT !.event_item = None, !.index = @ + 1]

StreamEvent(c, e) ==
    LET r == call[c]
    IN /\ r.pc = "stream"
       /\ agent[r.inst] # None
       /\ r.nevents < MaxEvents
       /\ call' = [call EXCEPT ![c] = astream_event(Step(r, "model"), e)]
       /\ UNCHANGED <<tools, prompt, pvars, thread_id, cfgvars, agent, store, tasks, open, nhandles,
                      ncalls>>

\* the event source is exhausted: the async with is left and the generator ends
StreamEnds(c) ==
    LET r == call[c]
    IN /\ r.pc = "stream"
       /\ call' = [call EXCEPT ![c] =
                     [Step(r, "release") EXCEPT !.pc = "done", !.handle = 0]]
       /\ open' = aexit(open, r.handle, "return")
       /\ UNCHANGED <<tools, prompt, pvars, thread_id, cfgvars, agent, store, tasks, nhandles, ncalls>>

\* mutant: every event item with a message is consolidated
astream_output_any_message(r) ==
    IF r.event_item # None /\ Len(r.event_item.messages) > 0
    THEN [r EXCEPT !.event_response = Last(r.event_item.messages),
                   !.result = [@ EXCEPT !.content =
                                  [is_task_complete |-> TRUE,
                                   require_user_input |-> FALSE,
                                   content |-> Str(Last(r.event_item.messages))]],
                   !.pc = "consolidate"]
    ELSE [r EXCEPT !.index = @ + 1, !.pc = "stream"]

(***************************************************************************)
(* astream after the status envelope: when the event item has messages and *)
(* the content of the last one is not empty, result["content"] becomes the *)
(* output dict, update_memory is awaited and result is yielded again.      *)
(***************************************************************************)
astream_output(r) ==
    IF /\ r.event_item # None
       /\ Len(r.event_item.messages) > 0
       /\ Last(r.event_item.messages) # ""
    THEN [r EXCEPT !.event_response = Last(r.event_item.messages),
                   !.result = [@ EXCEPT !.content =
                                  [is_task_complete |-> TRUE,
                                   require_user_input |-> FALSE,
                                   content |-> Str(Last(r.event_item.messages))]],
                   !.pc = "consolidate"]
    ELSE [r EXCEPT !.index = @ + 1, !.pc = "stream"]

\* mutant: after the error envelope the generator ends without raising
astream_resume_swallow(r) ==
    CASE r.resume = "after_status" -> astream_output(r)
      [] r.resume = "after_output" -> [r EXCEPT !.index = @ + 1, !.pc = "stream"]
      [] OTHER -> [r EXCEPT !.pc = "done"]

\* the consumer asks for the next envelope: the generator runs on from its yield
astream_resume(r) ==
    CASE r.resume = "after_status" -> astream_output(r)
      [] r.resume = "after_output" -> [r EXCEPT !.index = @ + 1, !.pc = "stream"]
      [] OTHER -> [r EXCEPT !.pc = "done", !.raised = TRUE]

Pull(c) ==
    /\ call[c].pc = "yielded"
    /\ call' = [call EXCEPT ![c] = astream_resume(call[c])]
    /\ UNCHANGED <<tools, prompt, pvars, thread_id, cfgvars, agent, store, tasks, open, nhandles,
                   ncalls>>

\* the consumer stops iterating; the generator stays suspended at its yield
Abandon(c) ==
    LET r == call[c]
    IN /\ r.pc = "yielded"
       /\ call' = [call EXCEPT ![c] =
                     [IdleCall EXCEPT !.pc = "abandoned", !.kind = r.kind,
                                      !.inst = r.inst, !.handle = r.handle,
                                      !.acquired = r.acquired,
                                      !.resume = r.resume]]
       /\ UNCHANGED <<tools, prompt, pvars, thread_id, cfgvars, agent, store, tasks, open, nhandles,
                      ncalls>>

\* the suspended generator is closed (aclose by the event loop's finalizer):
\* GeneratorExit at the yield leaves the async with; it is no Exception
Finalize(c) ==
    LET r == call[c]
    IN /\ r.pc = "abandoned"
       /\ call' = [call EXCEPT ![c] = IdleCall]
       /\ open' = aexit(open, r.handle, "close")
       /\ UNCHANGED <<tools, prompt, pvars, thread_id, cfgvars, agent, store, tasks, nhandles, ncalls>>

\* the caller has the envelope (ainvoke) or saw the sequence end (astream)
Collect(c) ==
    /\ call[c].pc = "done"
    /\ call' = [call EXCEPT ![c] = IdleCall]
    /\ UNCHANGED <<tools, prompt, pvars, thread_id, cfgvars, agent, store, tasks, open, nhandles,
                   ncalls>>

\* one agent instance, its calls made one after the other, every envelope
\* sequence of astream read until it ends or raises
Next ==
    \/ \E c \in Slots, k \in {"ainvoke", "astream"},
          tid \in Threads \cup {NoThread} : Start(c, 1, k, tid)
    \/ \E c \in Slots : Acquire(c)
    \/ \E c \in Slots : AcquireFails(c)
    \/ \E c \in Slots : Refresh(c)
    \/ \E c \in Slots : RefreshFails(c)
    \/ \E c \in Slots : Build(c)
    \/ \E c \in Slots : BuildFails(c)
    \/ \E c \in Slots, msgs \in Outputs : InvokeModel(c, msgs)
    \/ \E c \in Slots, msg \in {"model", "search"} : ModelFails(c, msg)
    \/ \E c \in Slots : Consolidate(c)
    \/ \E c \in Slots : ConsolidateFails(c)
    \/ \E c \in Slots, e \in Events : StreamEvent(c, e)
    \/ \E c \in Slots : StreamEnds(c)
    \/ \E c \in Slots : Pull(c)
    \/ \E c \in Slots : Collect(c)

Spec == Init /\ [][Next]_vars

\* one agent instance called with astream only (streams of at most
\* MaxTaskEvents plain events), where a generator its consumer abandoned is
\* closed in the end: the event loop's asynchronous-generator finalizer
\* calls aclose on it
NextStream ==
    \/ \E c \in Slots, tid \in Threads \cup {NoThread} :
          Start(c, 1, "astream", tid)
    \/ \E c \in Slots : Acquire(c)
    \/ \E c \in Slots : AcquireFails(c)
    \/ \E c \in Slots : Refresh(c)
    \/ \E c \in Slots : RefreshFails(c)
    \/ \E c \in Slots : Build(c)
    \/ \E c \in Slots : BuildFails(c)
    \/ \E c \in Slots, msg \in {"model", "search"} : ModelFails(c, msg)
    \/ \E c \in Slots : Consolidate(c)
    \/ \E c \in Slots : ConsolidateFails(c)
    \/ \E c \in Slots, e \in PlainEvents :
          call[c].nevents < MaxTaskEvents /\ StreamEvent(c, e)
    \/ \E c \in Slots : StreamEnds(c)
    \/ \E c \in Slots : Pull(c)
    \/ \E c \in Slots : Abandon(c)
    \/ \E c \in Slots : Finalize(c)
    \/ \E c \in Slots : Collect(c)

SpecFair ==
    Init /\ [][NextStream]_vars /\ \A c \in Slots : WF_vars(Finalize(c))

\* one agent instance called with ainvoke again and again, the caller
\* keeping the envelope of the call before while it makes the next one
NextRetry ==
    \/ \E c \in Slots, tid \in Threads \cup {NoThread} :
          Start(c, 1, "ainvoke", tid)
    \/ \E c \in Slots, tid \in Threads \cup {NoThread} :
          StartAgain(c, 1, "ainvoke", tid)
    \/ \E c \in Slots : Acquire(c)
    \/ \E c \in Slots : AcquireFails(c)
    \/ \E c \in Slots : Refresh(c)
    \/ \E c \in Slots : RefreshFails(c)
    \/ \E c \in Slots : Build(c)
    \/ \E c \in Slots : BuildFails(c)
    \/ \E c \in Slots, msgs \in Outputs : InvokeModel(c, msgs)
    \/ \E c \in Slots, msg \in {"model", "search"} : ModelFails(c, msg)
    \/ \E c \in Slots : Consolidate(c)
    \/ \E c \in Slots : ConsolidateFails(c)
    \/ \E c \in Slots : Collect(c)

SpecRetry == Init /\ [][NextRetry]_vars

\* two agent instances sharing the store, each called with ainvoke
NextShared ==
    \/ \E c \in Slots, i \in Instances, tid \in Threads \cup {NoThread} :
          Start(c, i, "ainvoke", tid)
    \/ \E c \in Slots : Acquire(c)
    \/ \E c \in Slots : AcquireFails(c)
    \/ \E c \in Slots : Refresh(c)
    \/ \E c \in Slots : RefreshFails(c)
    \/ \E c \in Slots : Build(c)
    \/ \E c \in Slots : BuildFails(c)
    \/ \E c \in Slots, msgs \in Outputs : InvokeModel(c, msgs)
    \/ \E c \in Slots, msg \in {"model", "search"} : ModelFails(c, msg)
    \/ \E c \in Slots : Consolidate(c)
    \/ \E c \in Slots : ConsolidateSubmits(c)
    \/ \E c \in Slots : ConsolidateFails(c)
    \/ DelayElapses
    \/ \E ok \in BOOLEAN : RunTask(ok)
    \/ \E c \in Slots : Collect(c)

SpecShared == InitShared /\ [][NextShared]_vars

\* one agent instance in either mode, with any store_type: its ainvoke
\* calls, the direct calls of update_memory and the delayed tasks
NextMemory ==
    \/ \E c \in Slots, tid \in Threads \cup {NoThread} :
          Start(c, 1, "ainvoke", tid)
    \/ \E c \in Slots, text \in Texts, st \in StoreTypeArgs \cup {Omitted} :
          CallUpdateMemory(c, 1, text, st)
    \/ \E c \in Slots : Acquire(c)
    \/ \E c \in Slots : AcquireFails(c)
    \/ \E c \in Slots : Refresh(c)
    \/ \E c \in Slots : RefreshFails(c)
    \/ \E c \in Slots : Build(c)
    \/ \E c \in Slots : BuildFails(c)
    \/ \E c \in Slots, msgs \in Outputs : InvokeModel(c, msgs)
    \/ \E c \in Slots, msg \in {"model", "search"} : ModelFails(c, msg)
    \/ \E c \in Slots : Consolidate(c)
    \/ \E c \in Slots : ConsolidateSubmits(c)
    \/ \E c \in Slots : ConsolidateFails(c)
    \/ \E c \in Slots : ConsolidateInvalid(c)
    \/ DelayElapses
    \/ \E ok \in BOOLEAN : RunTask(ok)
    \/ \E c \in Slots : Collect(c)

SpecMemory == InitMemory /\ [][NextMemory]_vars

\* one agent instance in background mode: its ainvoke and astream calls
\* (streams of at most MaxTaskEvents plain events, read to their end by the
\* consumer), the direct calls of update_memory and the delayed tasks
NextBackground ==
    \/ \E c \in Slots, k \in {"ainvoke", "astream"},
          tid \in Threads \cup {NoThread} : Start(c, 1, k, tid)
    \/ \E c \in Slots, text \in Texts, st \in StoreTypeArgs \cup {Omitted} :
          CallUpdateMemory(c, 1, text, st)
    \/ \E c \in Slots : Acquire(c)
    \/ \E c \in Slots : AcquireFails(c)
    \/ \E c \in Slots : Refresh(c)
    \/ \E c \in Slots : RefreshFails(c)
    \/ \E c \in Slots : Build(c)
    \/ \E c \in Slots : BuildFails(c)
    \/ \E c \in Slots, msgs \in {<<>>, <<"a">>} : InvokeModel(c, msgs)
    \/ \E c \in Slots, msg \in {"model", "search"} : ModelFails(c, msg)
    \/ \E c \in Slots : ConsolidateSubmits(c)
    \/ \E c \in Slots : ConsolidateFails(c)
    \/ \E c \in Slots : ConsolidateInvalid(c)
    \/ DelayElapses
    \/ \E ok \in BOOLEAN : RunTask(ok)
    \/ \E c \in Slots, e \in PlainEvents :
          call[c].nevents < MaxTaskEvents /\ StreamEvent(c, e)
    \/ \E c \in Slots : StreamEnds(c)
    \/ \E c \in Slots : Pull(c)
    \/ \E c \in Slots : Collect(c)

SpecBackground == InitBackground /\ [][NextBackground]_vars

(***************************************************************************)
(* Properties.                                                             *)
(***************************************************************************)
HasResult(env) == "result" \in DOMAIN env
HasError(env) == "error" \in DOMAIN env
Has(steps, op) == \E k \in 1..Len(steps) : steps[k] = op
Pos(steps, op) == CHOOSE k \in 1..Len(steps) : steps[k] = op
Before(steps, a, b) == Has(steps, a) /\ Has(steps, b) /\ Pos(steps, a) < Pos(steps, b)

\* C1: ainvoke never raises to its caller: an exception raised while the
\* handle is acquired, the checkpoints are refreshed, the agent is built,
\* the model is called or the memory is consolidated ends the call with one
\* envelope whose error carries the message of that exception.
C1_AinvokeNeverRaises ==
    \A c \in Slots :
        call[c].kind = "ainvoke" =>
            /\ ~call[c].raised
            /\ call[c].exc # "none" =>
                  /\ call[c].pc = "done"
                  /\ call[c].nout = 1
                  /\ HasError(call[c].envelope)
                  /\ call[c].envelope.error.message = call[c].exc

C1_Witness ==
    \E c \in Slots :
        /\ call[c].kind = "ainvoke"
        /\ call[c].pc = "done"
        /\ call[c].exc = "consolidate"
        /\ call[c].nupdates = 1

\* C2: every envelope returned by ainvoke holds exactly one of result and
\* error: error without result when the model call raised, result without
\* error when nothing raised.
C2_AinvokeOneOfResultError ==
    \A c \in Slots :
        (call[c].kind = "ainvoke" /\ call[c].pc = "done") =>
            /\ call[c].envelope # None
            /\ HasResult(call[c].envelope) # HasError(call[c].envelope)
            /\ call[c].exc \in {"model", "search"} =>
                  HasError(call[c].envelope) /\ ~HasResult(call[c].envelope)
            /\ call[c].exc = "none" =>
                  HasResult(call[c].envelope) /\ ~HasError(call[c].envelope)

C2_Witness ==
    \E c \in Slots :
        /\ call[c].kind = "ainvoke"
        /\ call[c].pc = "done"
        /\ call[c].exc = "model"
        /\ HasError(call[c].envelope)

\* C3: every envelope yielded by astream, the terminal one after an
\* exception included, holds exactly one of result and error.
C3_AstreamOneOfResultError ==
    \A c \in Slots :
        (call[c].kind = "astream" /\ call[c].envelope # None) =>
            HasResult(call[c].envelope) # HasError(call[c].envelope)

\* C4: the handle a call acquired is not open once the call has returned,
\* has failed or its envelope sequence has ended, and no handle is open
\* when no call is in progress.
C4_HandleReleased ==
    /\ \A c \in Slots :
          \/ call[c].pc = "done"
          \/ call[c].pc = "yielded" /\ call[c].resume = "reraise"
          => call[c].acquired \notin open
    /\ (\A c \in Slots : call[c].pc \in {"idle", "done"}) => open = {}

C4_Witness ==
    \E c \in Slots :
        /\ call[c].pc = "done"
        /\ call[c].acquired # 0
        /\ call[c].exc # "none"
        /\ nhandles = 2

\* C5: an exception in an astream call makes exactly one error envelope,
\* which is the last envelope of the sequence, and is then raised to the
\* consumer; a sequence that ends without raising has no error envelope.
C5_AstreamErrorThenRaise ==
    \A c \in Slots :
        call[c].kind = "astream" =>
            /\ call[c].nerr <= 1
            /\ call[c].exc # "none" =>
                  /\ call[c].nerr = 1
                  /\ HasError(call[c].envelope)
                  /\ call[c].envelope.error.message = call[c].exc
                  /\ \/ call[c].pc = "yielded" /\ call[c].resume = "reraise"
                     \/ call[c].pc = "done" /\ call[c].raised
            /\ call[c].raised => call[c].exc # "none"
            /\ (call[c].pc = "done" /\ ~call[c].raised) => call[c].nerr = 0

C5_Witness ==
    \E c \in Slots :
        /\ call[c].kind = "astream"
        /\ call[c].raised
        /\ call[c].exc = "model"
        /\ call[c].nout >= 2

\* C6: astream yields exactly one envelope for each agent or tools event:
\* a sequence that ended without an exception has as many envelopes as
\* there were agent and tools events.
C6_OneEnvelopePerEvent ==
    \A c \in Slots :
        (call[c].kind = "astream" /\ call[c].pc = "done" /\ ~call[c].raised) =>
            call[c].nout = call[c].nrecognized

\* C7: a search made by an instance returns the items written under the
\* namespace of its (thread_id, user_id, session_id) and no item of a
\* namespace that differs from them in a component.
Identifiers(i) == MakeNamespace(thread_id[i], user_id[i], session_id[i])

C7_PartitionedByIdentifiers ==
    /\ \A i \in Instances : \A x \in store :
          x \in _get_similar(i) <=> x.ns = Identifiers(i)
    /\ \A c \in Slots : \A x \in call[c].retrieved :
          x.ns = Identifiers(call[c].inst)

\* C8: when the model result of ainvoke has at least one message, the
\* envelope returned has result.content equal to the content of the last
\* message and update_memory was called exactly once, with that message.
C8_LastMessageIsContent ==
    \A c \in Slots :
        (/\ call[c].kind = "ainvoke"
         /\ call[c].pc = "done"
         /\ call[c].response_agent # None
         /\ Len(call[c].response_agent.messages) > 0) =>
            /\ HasResult(call[c].envelope)
            /\ call[c].envelope.result.content =
                  Str(Last(call[c].response_agent.messages))
            /\ call[c].nupdates = 1
            /\ call[c].update.messages = Last(call[c].response_agent.messages)

\* C9: when the model call of ainvoke succeeds with no message, the call
\* returns the placeholder result, with require_user_input true, and
\* update_memory is not called.
C9_PlaceholderWhenNoMessage ==
    \A c \in Slots :
        (/\ call[c].kind = "ainvoke"
         /\ call[c].response_agent # None
         /\ Len(call[c].response_agent.messages) = 0) =>
            /\ call[c].pc = "done"
            /\ HasResult(call[c].envelope)
            /\ ~HasError(call[c].envelope)
            /\ call[c].envelope.result.require_user_input
            /\ ~call[c].envelope.result.is_task_complete
            /\ call[c].envelope.result.content =
                  Str("We are unable to process your request at the moment. Please try again.")
            /\ call[c].nupdates = 0
            /\ ~Has(call[c].steps, "update_memory")

C9_Witness ==
    \E c \in Slots :
        /\ call[c].kind = "ainvoke"
        /\ call[c].pc = "done"
        /\ call[c].response_agent # None
        /\ Len(call[c].response_agent.messages) = 0
        /\ call[c].nout = 1

UsesAgent(r) ==
    \/ r.pc \in {"model", "stream", "consolidate"}
    \/ r.pc = "yielded" /\ r.resume # "reraise"

\* C11: the agent graph is built lazily and memoized: once an instance has a
\* graph it keeps that same graph (it is never built again), a call builds
\* one only when the instance has none, and every call that reaches the
\* model call has bound the graph's checkpointer to the handle it acquired.
C11_BuiltOnceAndRebound ==
    /\ [](\A c \in Slots :
            UsesAgent(call[c]) =>
                /\ agent[call[c].inst] # None
                /\ agent[call[c].inst].checkpointer = call[c].acquired
                /\ call[c].acquired \in open
                /\ Has(call[c].steps, "create") # Has(call[c].steps, "reuse"))
    /\ [][\A i \in Instances :
            agent[i] # None =>
                /\ agent'[i] # None
                /\ agent'[i].graph = agent[i].graph]_vars
    /\ [][\A c \in Slots :
            (Has(call'[c].steps, "create") /\ ~Has(call[c].steps, "create")) =>
                /\ agent[call'[c].inst] = None
                /\ agent'[call'[c].inst].graph = call'[c].acquired]_vars

C11_Witness ==
    \E c \in Slots :
        /\ call[c].kind = "astream"
        /\ call[c].pc = "stream"
        /\ Has(call[c].steps, "reuse")
        /\ agent[call[c].inst].graph = 1
        /\ call[c].acquired = 2
        /\ agent[call[c].inst].checkpointer = 2

\* C12: the consolidation triggered by ainvoke or astream on an agent
\* constructed with store_type episodic, user or semantic creates its
\* extraction manager with the schema of that type: Episode for episodic,
\* UserProfile for user, Triple for semantic, and the instructions that go
\* with it.
C12_PairOfConfiguredStoreType ==
    \A c \in Slots :
        (/\ call[c].kind \in {"ainvoke", "astream"}
         /\ call[c].update # None
         /\ store_type[call[c].inst] \in allowed_store_types) =>
            /\ call[c].update.mem # None
            /\ call[c].update.store_type = store_type[call[c].inst]
            /\ call[c].update.mem.schemas =
                  CASE store_type[call[c].inst] = "episodic" -> <<"Episode">>
                    [] store_type[call[c].inst] = "user" -> <<"UserProfile">>
                    [] OTHER -> <<"Triple">>
            /\ call[c].update.mem.instructions =
                  Pair(store_type[call[c].inst]).instructions

\* C13: update_memory called with a store_type that is not episodic, user
\* or semantic raises the store_type error: no extraction manager is
\* created, no extraction runs, no task is submitted, and the step leaves
\* the store and the task queue as they were.
C13_InvalidStoreTypeRejected ==
    /\ [](\A c \in Slots :
            (/\ call[c].update # None
             /\ call[c].update.store_type \notin allowed_store_types) =>
                /\ call[c].update.mem = None
                /\ call[c].nextracted = 0
                /\ call[c].nsubmitted = 0
                /\ call[c].pc = "done"
                /\ call[c].exc = "store_type"
                /\ call[c].raised)
    /\ [][\A c \in Slots :
            (/\ call'[c].nupdates > call[c].nupdates
             /\ call'[c].update.store_type \notin allowed_store_types) =>
                /\ store' = store
                /\ tasks' = tasks]_vars

C13_Witness ==
    \E c \in Slots :
        /\ call[c].kind = "update_memory"
        /\ call[c].store_type = "graph"
        /\ action_type[call[c].inst] = "background"
        /\ call[c].nupdates = 1
        /\ call[c].raised
        /\ store # {}

\* C14: the store_type is validated at construction: an instance that
\* exists was constructed with store_type episodic, user or semantic (the
\* construction with any other value fails, so no such instance exists).
C14_StoreTypeValidatedAtConstruction ==
    \A i \in Instances : store_type[i] \in allowed_store_types

\* C15: in hot-path mode, when ainvoke has returned the envelope of a turn
\* that consolidated, the extraction has been awaited before the envelope
\* was built and the memory extracted from the output message is in the
\* store, under the namespace of the extraction manager.
C15_HotpathVisibleBeforeReturn ==
    \A c \in Slots :
        (/\ call[c].kind = "ainvoke"
         /\ call[c].pc = "done"
         /\ action_type[call[c].inst] = "hotpath"
         /\ call[c].nupdates = 1
         /\ call[c].exc = "none") =>
            /\ call[c].nextracted = 1
            /\ call[c].nsubmitted = 0
            /\ Before(call[c].steps, "update_memory", "respond")
            /\ [ns |-> call[c].update.mem.namespace,
                text |-> Last(call[c].response_agent.messages)] \in store

C15_Witness ==
    \E c \in Slots :
        /\ call[c].kind = "ainvoke"
        /\ call[c].pc = "done"
        /\ call[c].nextracted = 1
        /\ HasResult(call[c].envelope)
        /\ call[c].envelope.result.content = Str("a")
        /\ [ns |-> namespace[call[c].inst], text |-> "a"] \in store

\* the call of slot c submits a delayed task in this step
Submits(c) == call'[c].nsubmitted > call[c].nsubmitted

\* C16: in background mode update_memory does not block its caller: the
\* step that submits the task runs no extraction and leaves the store as it
\* is, the task it adds is waiting for its delay, and in that same step the
\* triggering ainvoke returns its result envelope (astream yields it, a
\* direct call returns); no call awaits an extraction, and the store only
\* changes by a task whose delay is over.
C16_BackgroundDoesNotBlock ==
    /\ [](\A c \in Slots :
            action_type[call[c].inst] = "background" => call[c].nextracted = 0)
    /\ [][\A c \in Slots :
            Submits(c) =>
                /\ store' = store
                /\ Len(tasks') = Len(tasks) + 1
                /\ ~tasks'[Len(tasks')].elapsed
                /\ tasks'[Len(tasks')].after_seconds = delay
                /\ call'[c].exc = "none"
                /\ call'[c].kind = "ainvoke" =>
                      call'[c].pc = "done" /\ HasResult(call'[c].envelope)
                /\ call'[c].kind = "astream" =>
                      call'[c].pc = "yielded" /\ HasResult(call'[c].envelope)
                /\ call'[c].kind = "update_memory" =>
                      call'[c].pc = "done" /\ ~call'[c].raised]_vars
    /\ [][store' # store =>
            \E k \in 1..Len(tasks) :
                /\ tasks[k].elapsed
                /\ store' = store \cup {tasks[k].item}
                /\ Len(tasks') = Len(tasks) - 1]_vars

C16_Witness ==
    \E c \in Slots :
        /\ call[c].kind = "astream"
        /\ call[c].pc = "done"
        /\ ~call[c].raised
        /\ call[c].nsubmitted = 1
        /\ Len(tasks) = 1
        /\ tasks[1].call = call[c].id
        /\ ~tasks[1].elapsed
        /\ store = {}

\* C17: the failure of a delayed consolidation task never reaches the call
\* that submitted it: the step in which a task ends, failed or not, leaves
\* every call as it is (its envelope, its exception, its position), and a
\* call that submitted a task and raised nothing of its own has a result
\* envelope and no error envelope.
C17_TaskFailureNotSurfaced ==
    /\ [][Len(tasks') < Len(tasks) => call' = call]_vars
    /\ [](\A c \in Slots :
            (/\ call[c].nsubmitted > 0
             /\ call[c].kind \in {"ainvoke", "astream"}
             /\ call[c].exc \notin {"acquire", "refresh", "build", "model",
                                    "search", "consolidate", "store_type"}) =>
                /\ call[c].exc = "none"
                /\ ~call[c].raised
                /\ call[c].nerr = 0
                /\ HasResult(call[c].envelope)
                /\ ~HasError(call[c].envelope))

C17_Witness ==
    \E c \in Slots :
        /\ call[c].kind = "ainvoke"
        /\ call[c].pc = "done"
        /\ call[c].nsubmitted = 1
        /\ HasResult(call[c].envelope)
        /\ tasks = <<>>
        /\ store = {}

\* update_memory of the call of slot c got past create_memory in this step
\* and did not raise
Updates(c) ==
    /\ call'[c].nupdates > call[c].nupdates
    /\ call'[c].update.mem # None
    /\ call'[c].exc = "none"

\* C18: in background mode every update_memory call that does not raise
\* submits exactly one delayed task, for the namespace of the extraction
\* manager created by that call and for the message it was given; a
\* submitted task stays as it was submitted until it runs, whatever later
\* calls and thread_id overrides do, and what a task writes is its own item.
C18_OneTaskPerUpdate ==
    /\ [][\A c \in Slots :
            Updates(c) =>
                /\ call'[c].nsubmitted = call[c].nsubmitted + 1
                /\ Len(tasks') = Len(tasks) + 1
                /\ SubSeq(tasks', 1, Len(tasks)) = tasks
                /\ tasks'[Len(tasks')].call = call[c].id
                /\ tasks'[Len(tasks')].item =
                      [ns |-> call'[c].update.mem.namespace,
                       text |-> call'[c].update.messages]
                /\ call'[c].update.mem.namespace = namespace[call[c].inst]]_vars
    /\ [][(\A c \in Slots : ~Submits(c)) =>
            \/ /\ Len(tasks') = Len(tasks)
               /\ \A k \in 1..Len(tasks) :
                     /\ tasks'[k].item = tasks[k].item
                     /\ tasks'[k].call = tasks[k].call
               /\ store' = store
            \/ \E k \in 1..Len(tasks) :
                  /\ tasks' = SubSeq(tasks, 1, k - 1)
                                 \o SubSeq(tasks, k + 1, Len(tasks))
                  /\ store' \in {store, store \cup {tasks[k].item}}]_vars
    /\ [](\A c \in Slots :
            call[c].pc = "done" /\ call[c].exc = "none" =>
                call[c].nsubmitted = call[c].nupdates)

C18_Witness ==
    \E c \in Slots :
        /\ call[c].id = 2
        /\ call[c].arg = "t2"
        /\ thread_id[call[c].inst] = "t2"
        /\ call[c].pc = "done"
        /\ Len(tasks) = 1
        /\ tasks[1].call = 1
        /\ tasks[1].elapsed
        /\ tasks[1].item = [ns |-> <<"memories", "t1", "u1", "s1">>, text |-> "a"]

\* C19: a consolidation failure is not fatal to the turn: when the model
\* call of ainvoke gave an output message and update_memory then raised,
\* ainvoke returns a result envelope whose content is that message, and no
\* error envelope.
C19_ConsolidationFailureNotFatal ==
    \A c \in Slots :
        (/\ call[c].kind = "ainvoke"
         /\ call[c].pc = "done"
         /\ call[c].exc = "consolidate") =>
            /\ HasResult(call[c].envelope)
            /\ ~HasError(call[c].envelope)
            /\ call[c].envelope.result.content =
                  Str(Last(call[c].response_agent.messages))

\* C20: a failure of the similarity search made for the prompt does not
\* fail the invocation: no call ends in its except clause with the search
\* error, the model call goes on with a prompt that has no memories.
C20_RetrievalFailureDegrades ==
    \A c \in Slots :
        /\ call[c].exc # "search"
        /\ (call[c].envelope # None /\ HasError(call[c].envelope)) =>
              call[c].envelope.error.message # "search"

\* C21: a failure of the checkpoint deletion of the refresh does not fail
\* the turn: an ainvoke call whose deletion raised still builds or reuses
\* the agent, calls the model and returns a result envelope; a call whose
\* handle could not be acquired returns an error envelope.
C21_PruningFailureSwallowed ==
    \A c \in Slots :
        (call[c].kind = "ainvoke" /\ call[c].pc = "done") =>
            /\ call[c].exc = "refresh" =>
                  /\ Has(call[c].steps, "model")
                  /\ HasResult(call[c].envelope)
                  /\ ~HasError(call[c].envelope)
            /\ call[c].exc = "acquire" =>
                  /\ HasError(call[c].envelope)
                  /\ ~Has(call[c].steps, "model")

\* the handles a behaviour can acquire
Handles == 1..MaxCalls

\* C22: when the consumer of astream stops consuming after an envelope, the
\* handle that call acquired is released: an abandoned generator that still
\* holds its handle leads to that handle being closed, and a generator that
\* has been closed holds none.
C22_AbandonedHandleReleased ==
    \A h \in Handles :
        (\E c \in Slots : call[c].pc = "abandoned" /\ call[c].handle = h
                          /\ h \in open)
            ~> (h \notin open /\ \A c \in Slots : call[c].handle # h)

C22_Witness ==
    \E c \in Slots :
        /\ call[c].pc = "abandoned"
        /\ call[c].kind = "astream"
        /\ call[c].resume = "after_output"
        /\ call[c].handle \in open

\* the call of slot c is the call that follows the failed ainvoke call of
\* slot d on the same instance
Follows(c, d) ==
    /\ call[d].kind = "ainvoke"
    /\ call[d].pc = "done"
    /\ call[d].exc # "none"
    /\ call[c].id = call[d].id + 1
    /\ call[c].inst = call[d].inst

\* C23: calling again after a failed call is safe: the failed call left no
\* handle open, the following call can take each of its steps (acquire,
\* refresh, build or reuse, model call, consolidation), it rebuilds the
\* agent when the failed call had not built it and reuses it otherwise, and
\* when nothing fails it returns a result envelope.
C23_ReinvokeAfterFailure ==
    \A c \in Slots : \A d \in Slots :
        Follows(c, d) =>
            /\ call[d].acquired \notin open
            /\ open = IF call[c].handle = 0 THEN {} ELSE {call[c].handle}
            /\ call[c].pc = "acquire" => ENABLED Acquire(c)
            /\ call[c].pc = "refresh" => ENABLED Refresh(c)
            /\ call[c].pc = "build" => ENABLED Build(c)
            /\ call[c].pc = "model" => ENABLED InvokeModel(c, <<"a">>)
            /\ call[c].pc = "consolidate" => ENABLED Consolidate(c)
            /\ Has(call[c].steps, "create") =>
                  ~Has(call[d].steps, "create") /\ ~Has(call[d].steps, "reuse")
            /\ (Has(call[d].steps, "create") \/ Has(call[d].steps, "reuse")) =>
                  ~Has(call[c].steps, "create")
            /\ (call[c].kind = "ainvoke" /\ call[c].pc = "done"
                /\ call[c].exc = "none") =>
                  /\ HasResult(call[c].envelope)
                  /\ ~HasError(call[c].envelope)
                  /\ Has(call[c].steps, "create") # Has(call[c].steps, "reuse")
                  /\ Before(call[c].steps, "acquire", "model")
                  /\ Before(call[c].steps, "model", "respond")

C23_Witness ==
    \E c \in Slots : \E d \in Slots :
        /\ Follows(c, d)
        /\ call[d].exc = "build"
        /\ call[c].kind = "ainvoke"
        /\ call[c].arg = NoThread
        /\ call[c].pc = "done"
        /\ call[c].exc = "none"
        /\ Has(call[c].steps, "create")
        /\ call[c].nupdates = 1
        /\ open = {}

\* the call of slot c starts in this step
Begins(c) == call[c].pc = "idle" /\ call'[c].pc = "acquire"

C25_NamespaceFixed ==
    /\ Constructed
    /\ [][namespace' = namespace]_vars

C25_Witness ==
    \E c \in Slots :
        /\ call[c].kind = "astream"
        /\ call[c].pc = "done"
        /\ call[c].id = 2
        /\ call[c].arg = "t2"
        /\ call[c].nupdates > 0
        /\ thread_id[call[c].inst] = "t2"
        /\ namespace[call[c].inst] = MakeNamespace("t1", "u1", "s1")

(***************************************************************************)
(* MemoryPersistence: collections and documents of the Qdrant backend.     *)
(* The client and the vector store are external: get_collection raises     *)
(* 'Not found: Collection' for a missing collection, create_collection     *)
(* raises for a collection that exists, from_existing_collection raises    *)
(* for a missing one, and a similarity search returns the nearest stored   *)
(* documents, a document of the same text first.                           *)
(***************************************************************************)
MaxOps == 3
MaxDocs == 2

\* self.collection_name and another collection name
collection_name == "agent"
CollectionNames == {collection_name, "docs"}
NoCollection == "None"

\* the batches of documents (their page_content)
RECURSIVE SeqsUpTo(_, _)
SeqsUpTo(S, n) ==
    IF n = 0 THEN {<<>>}
    ELSE LET shorter == SeqsUpTo(S, n - 1)
         IN shorter \cup {Append(q, x) : q \in shorter, x \in S}

Batches == SeqsUpTo(Texts, MaxDocs) \ {<<>>}

\* AsyncQdrantClient.get_collection / QdrantClient.get_collection
qdrant_get_collection(cols, name, fault) ==
    IF fault THEN "Connection refused"
    ELSE IF name \in cols THEN "none"
    ELSE "Not found: Collection"

\* AsyncQdrantClient.create_collection / QdrantClient.create_collection
qdrant_create_collection(cols, name, fault) ==
    IF fault THEN [collections |-> cols, error |-> "Connection refused"]
    ELSE IF name \in cols
    THEN [collections |-> cols, error |-> "already exists"]
    ELSE [collections |-> cols \cup {name}, error |-> "none"]

\* mutant: the collection is created without asking whether it exists
create_collection_async_unchecked(cols, name, fault_get, fault_create) ==
    LET r == qdrant_create_collection(cols, name, fault_create)
    IN [collections |-> r.collections,
        returned |-> IF r.error = "none" THEN "True" ELSE "none",
        raised |-> r.error,
        sent |-> TRUE]

\* MemoryPersistence.create_collection_async: True when get_collection
\* finds the collection; on 'Not found: Collection' the collection is
\* created (an error of the creation propagates); on any other error False
create_collection_async(cols, name, fault_get, fault_create) ==
    LET e == qdrant_get_collection(cols, name, fault_get)
        r == qdrant_create_collection(cols, name, fault_create)
    IN IF e = "none"
       THEN [collections |-> cols, returned |-> "True", raised |-> "none",
             sent |-> FALSE]
       ELSE IF e = "Not found: Collection"
       THEN [collections |-> r.collections,
             returned |-> IF r.error = "none" THEN "True" ELSE "none",
             raised |-> r.error,
             sent |-> TRUE]
       ELSE [collections |-> cols, returned |-> "False", raised |-> "none",
             sent |-> FALSE]

\* MemoryPersistence.create_collection: the same with the synchronous client
create_collection(cols, name, fault_get, fault_create) ==
    LET e == qdrant_get_collection(cols, name, fault_get)
        r == qdrant_create_collection(cols, name, fault_create)
    IN IF e = "none"
       THEN [collections |-> cols, returned |-> "True", raised |-> "none",
             sent |-> FALSE]
       ELSE IF e = "Not found: Collection"
       THEN [collections |-> r.collections,
             returned |-> IF r.error = "none" THEN "True" ELSE "none",
             raised |-> r.error,
             sent |-> TRUE]
       ELSE [collections |-> cols, returned |-> "False", raised |-> "none",
             sent |-> FALSE]

\* MemoryPersistence.get_vector_store: the name asked for is created when
\* self.collection_name is not among the existing collections, and then
\* opened with QdrantVectorStore.from_existing_collection
get_vector_store(cols, collection) ==
    LET name == IF collection # NoCollection THEN collection
                ELSE collection_name
        r == IF collection_name \notin cols
             THEN qdrant_create_collection(cols, name, FALSE)
             ELSE [collections |-> cols, error |-> "none"]
    IN IF r.error # "none"
       THEN [collections |-> r.collections, vs |-> NoCollection,
             raised |-> r.error]
       ELSE IF name \notin r.collections
       THEN [collections |-> r.collections, vs |-> NoCollection,
             raised |-> "Not found: Collection"]
       ELSE [collections |-> r.collections, vs |-> name, raised |-> "none"]

\* vs.asimilarity_search(query, k=1): the nearest stored document, one of
\* the same text when there is one
asimilarity_search(pts, vs, query) ==
    LET stored == {x \in pts : x.collection = vs}
        same == {x \in stored : x.page_content = query}
    IN IF stored = {} THEN <<>>
       ELSE IF same # {} THEN << CHOOSE x \in same : TRUE >>
       ELSE << CHOOSE x \in stored : TRUE >>

\* the loop of add_documents_async: every document is compared with what
\* the store holds when the call starts; a document is skipped when the
\* nearest stored document has its text, else it is copied with a uuid4 id
RECURSIVE new_documents(_, _, _, _)
new_documents(pts, vs, documents, n) ==
    IF documents = <<>> THEN <<>>
    ELSE LET doc == Head(documents)
             existing_docs == asimilarity_search(pts, vs, doc)
         IN IF existing_docs # <<>> /\ existing_docs[1].page_content = doc
            THEN new_documents(pts, vs, Tail(documents), n)
            ELSE << [collection |-> vs, id |-> n + 1, page_content |-> doc] >>
                 \o new_documents(pts, vs, Tail(documents), n + 1)

\* a MemoryPersistence call starts
BeginOp ==
    /\ nops < MaxOps
    /\ nops' = nops + 1
    /\ UNCHANGED <<tools, prompt, thread_id, cfgvars, agent, store, tasks, open,
                   nhandles, ncalls, call>>

\* create_collection(name) / create_collection_async(name), with or without
\* a backend error in the request that looks the collection up or in the
\* one that creates it
CreateCollection(kind, name, fault_get, fault_create) ==
    LET r == IF kind = "create_collection"
             THEN create_collection(collections, name, fault_get, fault_create)
             ELSE create_collection_async(collections, name, fault_get,
                                          fault_create)
    IN /\ BeginOp
       /\ collections' = r.collections
       /\ operation' = [kind |-> kind, name |-> name, returned |-> r.returned,
                        raised |-> r.raised, sent |-> r.sent,
                        existed |-> name \in collections,
                        again |-> /\ operation.kind \in {"create_collection",
                                      "create_collection_async"}
                                  /\ operation.name = name
                                  /\ operation.returned = "True",
                        fault |-> fault_get \/ (r.sent /\ fault_create)]
       /\ UNCHANGED <<points, nuuid>>

\* delete_collection_async(name): the collection goes with its documents
DeleteCollection(name) ==
    /\ BeginOp
    /\ name \in collections
    /\ collections' = collections \ {name}
    /\ points' = {x \in points : x.collection # name}
    /\ operation' = [kind |-> "delete_collection_async", name |-> name]
    /\ UNCHANGED nuuid

\* add_documents_async(documents, collection) on a backend that answers
AddDocuments(documents, collection) ==
    LET g == get_vector_store(collections, collection)
        new == IF g.raised = "none"
               THEN new_documents(points, g.vs, documents, nuuid)
               ELSE <<>>
    IN /\ BeginOp
       /\ collections' = g.collections
       /\ points' = points \cup {new[k] : k \in 1..Len(new)}
       /\ nuuid' = nuuid + Len(new)
       /\ operation' = [kind |-> "add_documents_async",
                        name |-> IF collection # NoCollection THEN collection
                                 ELSE collection_name,
                        documents |-> documents,
                        raised |-> g.raised]

\* vs.aadd_documents(doc_splits) of retriever: every chunk is stored
RECURSIVE aadd_documents(_, _, _)
aadd_documents(vs, documents, n) ==
    IF documents = <<>> THEN {}
    ELSE {[collection |-> vs, id |-> n + 1, page_content |-> Head(documents)]}
         \cup aadd_documents(vs, Tail(documents), n + 1)

\* retriever(urls, collection=...): the chunks loaded from the urls are
\* added to the vector store that get_vector_store returns
Retriever(doc_splits, collection) ==
    LET g == get_vector_store(collections, collection)
    IN /\ BeginOp
       /\ collections' = g.collections
       /\ points' = IF g.raised = "none"
                    THEN points \cup aadd_documents(g.vs, doc_splits, nuuid)
                    ELSE points
       /\ nuuid' = IF g.raised = "none" THEN nuuid + Len(doc_splits)
                   ELSE nuuid
       /\ operation' = [kind |-> "retriever", name |-> collection,
                        documents |-> doc_splits, raised |-> g.raised]

\* a backend with any of the collections, no document yet
InitPersistence ==
    /\ thread_id = [i \in Instances |-> "t1"]
    /\ user_id = [i \in Instances |-> "u1"]
    /\ session_id = [i \in Instances |-> "s1"]
    /\ refresh_checkpointer = [i \in Instances |-> FALSE]
    /\ action_type = [i \in Instances |-> "hotpath"]
    /\ store_type = [i \in Instances |-> __init__store_type("semantic")]
    /\ Constructed
    /\ Fresh
    /\ collections \in SUBSET CollectionNames
    /\ points = {}
    /\ nuuid = 0
    /\ nops = 0
    /\ operation = NoOp

NextPersistence ==
    \/ \E kind \in {"create_collection", "create_collection_async"},
          name \in CollectionNames, fault_get \in BOOLEAN,
          fault_create \in BOOLEAN :
            CreateCollection(kind, name, fault_get, fault_create)
    \/ \E name \in CollectionNames : DeleteCollection(name)
    \/ \E documents \in Batches,
          collection \in CollectionNames \cup {NoCollection} :
            AddDocuments(documents, collection)

SpecPersistence == InitPersistence /\ [][NextPersistence]_vars

\* the same calls and those of retriever
NextVectorStore ==
    \/ NextPersistence
    \/ \E doc_splits \in Batches, collection \in CollectionNames :
            Retriever(doc_splits, collection)

SpecVectorStore == InitPersistence /\ [][NextVectorStore]_vars

\* the stored documents of a collection that have the text of a document
Stored(pts, name, text) ==
    {x \in pts : x.collection = name /\ x.page_content = text}

\* the documents of a batch that have a text
Occurrences(documents, text) ==
    {k \in 1..Len(documents) : documents[k] = text}

\* C26: add_documents_async adds nothing for a document whose text is the
\* text of the nearest document stored in the collection, and for every
\* other document exactly one item, with an identifier no stored item and
\* no other new item has.
C26_DuplicateSuppression ==
    [][nops' # nops /\ operation'.kind = "add_documents_async" =>
        LET name == operation'.name
            documents == operation'.documents
            added == points' \ points
        IN /\ points \subseteq points'
           /\ \A x \in added : x.collection = name
           /\ \A text \in Texts :
                LET top1 == asimilarity_search(points, name, text)
                IN IF top1 # <<>> /\ top1[1].page_content = text
                   THEN Stored(added, name, text) = {}
                   ELSE Cardinality(Stored(added, name, text))
                           = Cardinality(Occurrences(documents, text))
           /\ \A x \in added : \A y \in points : x.id # y.id
           /\ \A x, y \in added : x.id = y.id => x = y]_vars

\* C27: create_collection and create_collection_async leave the collection
\* in place once: a call for a name that exists succeeds, sends no create
\* request and changes nothing, however often it is repeated; a call that
\* returns True leaves the collection existing; no other collection is
\* touched; and a call fails only when a request to the backend failed.
C27_CreateIfAbsent ==
    [][nops' # nops /\ operation'.kind \in {"create_collection",
                                            "create_collection_async"} =>
        LET o == operation'
        IN /\ o.returned = "True" => o.name \in collections'
           /\ o.name \in collections /\ ~o.fault =>
                 /\ o.returned = "True"
                 /\ o.raised = "none"
                 /\ ~o.sent
                 /\ collections' = collections
           /\ o.returned # "True" => o.fault
           /\ collections \subseteq collections'
           /\ collections' \subseteq collections \cup {o.name}]_vars

C27_Witness ==
    /\ operation.kind = "create_collection_async"
    /\ operation.again
    /\ operation.existed
    /\ operation.returned = "True"
    /\ ~operation.sent
    /\ nops = 3

\* the place of an operation in the order acquire, refresh, build or reuse,
\* model call, consolidation, respond, release
Rank(step) ==
    CASE step = "acquire" -> 1
      [] step = "delete" -> 2
      [] step \in {"create", "reuse"} -> 3
      [] step = "model" -> 4
      [] step = "update_memory" -> 5
      [] step = "respond" -> 6
      [] step = "release" -> 7

\* C28: the operations of every finished ainvoke call follow one another
\* in the order acquire, refresh, build or reuse, model call,
\* consolidation, respond, release: the call starts with the acquisition
\* (when the acquisition fails nothing but respond follows), an error skips
\* to respond, and the handle that was acquired is released last, after the
\* envelope is built.
C28_StepOrder ==
    \A c \in Slots :
        call[c].kind = "ainvoke" /\ call[c].pc = "done" =>
            LET steps == call[c].steps
            IN /\ Len(steps) > 0
               /\ call[c].acquired # 0 <=> steps[1] = "acquire"
               /\ \A j, k \in 1..Len(steps) :
                     j < k => Rank(steps[j]) < Rank(steps[k])
               /\ Has(steps, "respond")
               /\ call[c].acquired # 0 =>
                     /\ steps[Len(steps)] = "release"
                     /\ Before(steps, "respond", "release")

(***************************************************************************)
(* MemoryManager._prompt(state): the callable the graph calls before a     *)
(* model call.  It searches the store and returns one system message,      *)
(* which shows memories according to self.store_type, followed by the      *)
(* messages of the state.                                                  *)
(***************************************************************************)
MaxPrompts == 2

Msg(role, content) == [role |-> role, content |-> content]

\* state["messages"]: conversations that end with a message of the user
Conversations ==
    {<< Msg("user", "a") >>,
     << Msg("user", "b"), Msg("assistant", "a"), Msg("user", "a") >>,
     << Msg("user", "a"), Msg("assistant", "b"), Msg("user", "b") >>}

\* the list store.search returns for a set of matching items
RECURSIVE Listed(_)
Listed(S) ==
    IF S = {} THEN <<>>
    ELSE LET x == CHOOSE y \in S : TRUE
         IN << x >> \o Listed(S \ {x})

\* the memories the system message shows: every episode for "episodic",
\* memories[0] for "user", the whole list for any other store_type
Shown(st, memories) ==
    IF memories = <<>> THEN <<>>
    ELSE IF st = "episodic" THEN memories
    ELSE IF st = "user" THEN << memories[1] >>
    ELSE memories

_prompt(i, messages) ==
    LET memories == Listed(_get_similar(i))
    IN << [role |-> "system",
           content |-> [text |-> "You are a helpful assistant.",
                        memories |-> Shown(store_type[i], memories)]] >>
       \o messages

\* the graph of instance i calls self._prompt(state)
Prompt(i, messages) ==
    /\ (IF prompt = None THEN 0 ELSE prompt.n) < MaxPrompts
    /\ prompt' = [n |-> IF prompt = None THEN 1 ELSE prompt.n + 1,
                  inst |-> i,
                  messages |-> messages,
                  retrieved |-> _get_similar(i),
                  returned |-> _prompt(i, messages)]
    /\ UNCHANGED <<tools, pvars, thread_id, cfgvars, agent, store, tasks, open,
                   nhandles, ncalls, call>>

\* one manager in hot-path mode with any store_type: update_memory calls
\* that fill the store, and the prompts built from it
NextPrompt ==
    \/ \E c \in Slots, text \in Texts, st \in StoreTypeArgs \cup {Omitted} :
          CallUpdateMemory(c, 1, text, st)
    \/ \E c \in Slots : Consolidate(c)
    \/ \E c \in Slots : ConsolidateInvalid(c)
    \/ \E c \in Slots : Collect(c)
    \/ \E messages \in Conversations : Prompt(1, messages)

InitPrompt ==
    /\ InitMemory
    /\ action_type = [i \in Instances |-> "hotpath"]

SpecPrompt == InitPrompt /\ [][NextPrompt]_vars

\* C29: the list _prompt returns is one system message followed by the
\* messages of the conversation in their order, and, whatever the
\* store_type, the system message shows every memory item retrieved.
C29_PromptShowsEveryMemory ==
    prompt # None =>
        /\ Len(prompt.returned) = Len(prompt.messages) + 1
        /\ prompt.returned[1].role = "system"
        /\ \A k \in 1..Len(prompt.messages) :
              prompt.returned[k + 1] = prompt.messages[k]
        /\ \A x \in prompt.retrieved :
              \E k \in 1..Len(prompt.returned[1].content.memories) :
                  prompt.returned[1].content.memories[k] = x

\* the event carries a last message with a text
HasOutputText(e) == Len(e.messages) > 0 /\ Last(e.messages) # ""

\* C30: result.is_task_complete of an envelope astream yields is decided by
\* the event that produced it alone: TRUE in the status envelope of an
\* agent event, FALSE in the status envelope of a tools event with no
\* output text, TRUE in the envelope of an output text.
C30_FlagOfProducingEvent ==
    \A c \in Slots :
        (/\ call[c].kind = "astream"
         /\ call[c].pc = "yielded"
         /\ HasResult(call[c].envelope)) =>
            LET flag == call[c].envelope.result.is_task_complete
                e == call[c].event
            IN /\ (call[c].resume = "after_status" /\ e.kind = "agent") => flag
               /\ (call[c].resume = "after_status" /\ e.kind = "tools"
                      /\ ~HasOutputText(e)) => ~flag
               /\ call[c].resume = "after_output" => flag

\* the status envelope of the last event is out and its output not yet
\* looked at or consolidated
OutputPending(c) ==
    \/ call[c].pc = "consolidate"
    \/ call[c].pc = "yielded" /\ call[c].resume = "after_status"

\* C31: astream calls update_memory once for every event whose last message
\* has a text and for no other event: between two events, and when the
\* stream has ended, there are as many update_memory calls as such events,
\* and while the output of an event is pending the event is the only one
\* not yet counted.
C31_OneUpdatePerOutputText ==
    \A c \in Slots :
        call[c].kind = "astream" /\ Running(c) =>
            IF OutputPending(c)
            THEN call[c].ntexts - call[c].nupdates
                    = IF HasOutputText(call[c].event) THEN 1 ELSE 0
            ELSE call[c].nupdates = call[c].ntexts

C31_Witness ==
    \E c \in Slots :
        /\ call[c].kind = "astream"
        /\ call[c].pc = "done"
        /\ ~call[c].raised
        /\ call[c].nevents = 3
        /\ call[c].event.kind = "agent"
        /\ HasOutputText(call[c].event)
        /\ call[c].ntexts = 1
        /\ call[c].nupdates = 1

\* C32: the envelope astream yields for the output of an agent or tools
\* event has the text of the last message of the event as result.content
\* and TRUE as result.is_task_complete.
C32_OutputEnvelope ==
    \A c \in Slots :
        (/\ call[c].kind = "astream"
         /\ call[c].pc = "yielded"
         /\ call[c].resume = "after_output") =>
            /\ HasResult(call[c].envelope)
            /\ call[c].envelope.result.content
                  = Str(Last(call[c].event.messages))
            /\ call[c].envelope.result.is_task_complete

\* C33: the tool list an agent graph was given is the manage tool and the
\* search tool of the namespace of its instance, each once, and nothing
\* else (no instance is configured with further tools).
C33_OwnToolsOnly ==
    \A i \in Instances :
        agent[i] # None =>
            /\ Len(agent[i].tools) = 2
            /\ \A k \in 1..Len(agent[i].tools) :
                  agent[i].tools[k].namespace = namespace[i]
            /\ \E k \in 1..Len(agent[i].tools) :
                  agent[i].tools[k].tool = "manage_memory"
            /\ \E k \in 1..Len(agent[i].tools) :
                  agent[i].tools[k].tool = "search_memory"

(***************************************************************************)
(* Calls of one instance that overlap: ainvoke and astream are coroutines, *)
(* a second call can start while the first is suspended at an await        *)
(* (acquisition, deletion, build, model call, consolidation) or at a       *)
(* yield.  Each action is the code between two such points.                *)
(***************************************************************************)
StartInterleaved(c, i, k, tid) == Begin(c, i, k, tid)

NextInterleaved ==
    \/ \E c \in Slots, k \in {"ainvoke", "astream"}, tid \in Threads :
          StartInterleaved(c, 1, k, tid)
    \/ \E c \in Slots : Acquire(c)
    \/ \E c \in Slots : Refresh(c)
    \/ \E c \in Slots : Build(c)
    \/ \E c \in Slots, msgs \in {<<>>, <<"a">>} : InvokeModel(c, msgs)
    \/ \E c \in Slots : Consolidate(c)
    \/ \E c \in Slots, e \in PlainEvents :
          call[c].nevents < MaxTaskEvents /\ StreamEvent(c, e)
    \/ \E c \in Slots : StreamEnds(c)
    \/ \E c \in Slots : Pull(c)
    \/ \E c \in Slots : Collect(c)

SpecInterleaved == Init /\ [][NextInterleaved]_vars

\* C34: with calls of one instance interleaved, the envelopes of a call
\* carry the thread_id that call was given, and the deletion of its refresh
\* is for that thread.
C34_InterleavedOwnThread ==
    \A c \in Slots :
        call[c].kind \in {"ainvoke", "astream"} /\ call[c].arg # NoThread =>
            /\ call[c].envelope # None =>
                  call[c].envelope.id = Str(call[c].arg)
            /\ \A k \in 1..Len(call[c].deleted) :
                  call[c].deleted[k].thread_id = call[c].arg

\* the step is a model call of the call of slot c
ModelCall(c) ==
    /\ call[c].pc \in {"model", "stream"}
    /\ \/ call'[c].response_agent # call[c].response_agent
       \/ call'[c].nevents = call[c].nevents + 1

\* C35: with calls of one instance interleaved, a model call runs on the
\* agent graph while the checkpointer of the graph is an open handle.
C35_ModelCallOnOpenHandle ==
    [][\A c \in Slots :
          ModelCall(c) => agent[call[c].inst].checkpointer \in open]_vars

\* C36: at every point of the life of an instance the thread component of
\* its memory namespace is the thread_id it uses for checkpoints and
\* envelopes, also after a call that was given another thread_id.
C36_NamespaceFollowsThread ==
    \A i \in Instances : namespace[i][2] = thread_id[i]

(***************************************************************************)
(* The default thread_id.  The class body of MemoryManager holds           *)
(* "thread_id: str = str(uuid.uuid4())": the call is evaluated once, when  *)
(* the class is defined, and its value is an attribute of the class.       *)
(* __init__ reads kwargs.get("thread_id", self.thread_id), and on a new    *)
(* object self.thread_id is that class attribute.                          *)
(***************************************************************************)
MemoryManager_thread_id == "uuid"

__init__thread_id(kw) == IF kw = NoThread THEN MemoryManager_thread_id ELSE kw

\* two agents on one store, both constructed without a thread_id argument,
\* the first for (u1, s1), the second for any user and session
InitDefaults ==
    /\ thread_id = [i \in Instances |-> __init__thread_id(NoThread)]
    /\ user_id \in [Instances -> Users]
    /\ user_id[1] = "u1"
    /\ session_id \in [Instances -> Sessions]
    /\ session_id[1] = "s1"
    /\ refresh_checkpointer = [i \in Instances |-> TRUE]
    /\ \E a \in {"hotpath", "background"} :
          action_type = [i \in Instances |-> a]
    /\ store_type = [i \in Instances |-> __init__store_type("semantic")]
    /\ Constructed
    /\ Fresh
    /\ NoPersistence

SpecDefaults == InitDefaults /\ [][NextShared]_vars

\* C37: two instances constructed without a thread_id argument have
\* distinct default thread_ids, so distinct namespaces, and no memory is
\* found by the searches of both.
C37_DistinctDefaults ==
    /\ namespace[1][2] # namespace[2][2]
    /\ namespace[1] # namespace[2]
    /\ _get_similar(1) \cap _get_similar(2) = {}

\* C38: add_documents_async stores no text that the collection did not
\* hold before the call more than once: a batch with the same new text
\* twice adds at most one item for it.
C38_NewTextAddedOnce ==
    [][nops' # nops /\ operation'.kind = "add_documents_async"
         /\ operation'.raised = "none" =>
        LET name == operation'.name
            added == points' \ points
        IN \A text \in Texts :
              Stored(points, name, text) = {} =>
                  Cardinality(Stored(added, name, text)) <= 1]_vars

\* C39: get_vector_store(collection), called by add_documents_async and by
\* retriever, creates the collection asked for exactly when it does not
\* exist, whatever its name: it sends no create request for a collection
\* that exists and opens no collection that is missing.
C39_CreatesExactlyWhenMissing ==
    [][nops' # nops /\ operation'.kind \in {"add_documents_async",
                                            "retriever"} =>
        /\ operation'.raised # "already exists"
        /\ operation'.raised # "Not found: Collection"
        /\ collections' = collections \cup {operation'.name}]_vars

====
